---- MODULE Spec2Model ----
(***************************************************************************)
(* Model of native/extypst_nif/src/lib.rs: the SystemWorld provider the    *)
(* typesetting engine calls back into, its compile pass, and the NIF       *)
(* entry point that builds one provider per call.                          *)
(*                                                                         *)
(* Strings are sequences of characters, byte buffers sequences of bytes.   *)
(* A FileId is the number the engine's process-wide interner gave to a     *)
(* virtual path: FileId::new returns the number already given to the path  *)
(* when there is one, and the next free number otherwise; as_u16 is that   *)
(* number.                                                                 *)
(***************************************************************************)
EXTENDS Integers, Sequences, FiniteSets, TLC

\* ------------------------------------------------------------------ bounds
NumThreads == 2
MaxCompiles == 2
MaxDiags == 2
MaxSearches == 2

Worlds == {1, 2}
\* The provider a host keeps; the other one serves a second entry-point call.
Providers == {1}
Threads == 1..NumThreads

Markups == {<<"m", "1">>, <<"m", "2">>}
MarkupPath == "MARKUP.typ"
AuxPaths == {"aux.typ"}
Messages == {<<"a">>, <<"b", "a">>}
ExportErrors == {<<"x">>}
PdfBuffers == {<<37, 80, 68, 70>>, <<37, 80, 68, 70, 255>>}

VARIABLES
    fs,         \* the file system: path -> node
    interner,   \* the process-wide FileId interner: the paths, in id order
    pc,         \* per provider: where its owner stands in new / compile
    world,      \* per provider: the SystemWorld
    call,       \* per provider: the running (or last) compile call
    thr,        \* per provider: the engine's threads inside World::font
    issued,     \* per provider: the insert calls so far: the id returned and the text
    reads,      \* per provider: per font index asked for, the runs of the loader
    fontRets,   \* per provider: per font index asked for, the values font returned
    obs,        \* per provider: the last World::source or World::file call of this pass
    fontSearcher, \* a FontSearcher under construction: its book and its fonts
    searchLog   \* the search_dir and search_file calls made on it, with what each added

vars == <<fs, interner, pc, world, call, thr, issued, reads, fontRets, obs,
          fontSearcher, searchLog>>

\* ------------------------------------------------------------- helpers
SeqsUpTo(S, n) == UNION {[1..k -> S] : k \in 0..n}

\* ------------------------------------------------------------- FileId
\* The number of `path` in the interner `tab` (0-based position), when interned.
InternedId(tab, path) == CHOOSE n \in 0..(Len(tab) - 1) : tab[n + 1] = path

IsInterned(tab, path) == \E n \in 1..Len(tab) : tab[n] = path

\* FileId::new: the interner after the call and the id it returns.
FileIdNew(tab, path) ==
    IF IsInterned(tab, path)
    THEN [tab |-> tab, id |-> InternedId(tab, path)]
    ELSE [tab |-> Append(tab, path), id |-> Len(tab)]

\* ------------------------------------------------------------- results
Ok(v) == [ok |-> TRUE, val |-> v]
Err(e) == [ok |-> FALSE, err |-> e]
NotFound == "NotFound"
NoResult == [pending |-> TRUE]

\* ------------------------------------------------------------- file system
\* A path is a root directory and the names below it; a name is a sequence of
\* characters. A node is a directory or a file; `open` says whether File::open
\* (or reading the directory) succeeds, `faces` lists the faces of a font file
\* in file order, "bad" for a face FontInfo::new rejects, `rank` is the place of
\* the node in what the OS lists for its directory (an order the OS is free to
\* choose and to change).
P(root, rel) == [root |-> root, rel |-> rel]
Dir(open) == [kind |-> "dir", open |-> open, faces |-> <<>>, rank |-> 0]
File(open, faces) == [kind |-> "file", open |-> open, faces |-> faces, rank |-> 0]

Code(c) ==
    CASE c = "." -> 46 [] c = "C" -> 67 [] c = "F" -> 70 [] c = "O" -> 79
      [] c = "T" -> 84 [] c = "a" -> 97 [] c = "b" -> 98 [] c = "c" -> 99
      [] c = "f" -> 102 [] c = "o" -> 111 [] c = "t" -> 116

\* OsStr::cmp on two file names: bytewise lexicographic.
RECURSIVE NameLess(_, _)
NameLess(a, b) ==
    IF a = <<>> THEN b # <<>>
    ELSE IF b = <<>> THEN FALSE
    ELSE IF Code(Head(a)) # Code(Head(b)) THEN Code(Head(a)) < Code(Head(b))
    ELSE NameLess(Tail(a), Tail(b))

FileName(p) == IF p.rel = <<>> THEN <<>> ELSE p.rel[Len(p.rel)]

Children(files, p) ==
    {q \in DOMAIN files :
        /\ q.root = p.root
        /\ Len(q.rel) = Len(p.rel) + 1
        /\ SubSeq(q.rel, 1, Len(p.rel)) = p.rel}

\* fs::read_dir as WalkDir sees it: the entries of the directory in the order
\* the OS lists them.
RECURSIVE ListByRank(_, _)
ListByRank(files, S) ==
    IF S = {} THEN <<>>
    ELSE LET m == CHOOSE x \in S : \A y \in S : files[x].rank <= files[y].rank
         IN <<m>> \o ListByRank(files, S \ {m})

ReadDir(files, p) == ListByRank(files, Children(files, p))

\* Mutant of SortByFileName: the entries stay in the order the OS lists them.
Unsorted(entries) == entries

\* The place of x in a list sorted by file name: after every element that is not
\* greater (the sort is stable).
RECURSIVE InsertByFileName(_, _)
InsertByFileName(sorted, x) ==
    IF sorted = <<>> THEN <<x>>
    ELSE IF NameLess(FileName(x), FileName(Head(sorted))) THEN <<x>> \o sorted
    ELSE <<Head(sorted)>> \o InsertByFileName(Tail(sorted), x)

RECURSIVE SortFrom(_, _)
SortFrom(sorted, entries) ==
    IF entries = <<>> THEN sorted
    ELSE SortFrom(InsertByFileName(sorted, Head(entries)), Tail(entries))

\* sort_by(|a, b| a.file_name().cmp(b.file_name()))
SortByFileName(entries) == SortFrom(<<>>, entries)

\* WalkDir::new(path).follow_links(true).sort_by(..).into_iter().filter_map(|e| e.ok()):
\* the root first, then each directory's entries in name order, a directory before
\* its contents; what cannot be read yields an error, which is dropped.
RECURSIVE WalkDir(_, _), WalkAll(_, _)
WalkDir(files, p) ==
    IF p \notin DOMAIN files THEN <<>>
    ELSE IF files[p].kind = "file" \/ ~files[p].open THEN <<p>>
    ELSE <<p>> \o WalkAll(files, SortByFileName(ReadDir(files, p)))
WalkAll(files, ps) ==
    IF ps = <<>> THEN <<>> ELSE WalkDir(files, Head(ps)) \o WalkAll(files, Tail(ps))

\* Path::extension: what follows the last dot of the file name, when the name has
\* a dot that is not its first character.
LastDot(name) ==
    LET dots == {i \in 1..Len(name) : name[i] = "."}
    IN IF dots = {} THEN 0 ELSE CHOOSE i \in dots : \A j \in dots : j <= i

NoExtension == <<"<none>">>

Extension(p) ==
    LET name == FileName(p) IN
    IF LastDot(name) <= 1 THEN NoExtension
    ELSE SubSeq(name, LastDot(name) + 1, Len(name))

FontExtensions ==
    {<<"t", "t", "f">>, <<"o", "t", "f">>, <<"T", "T", "F">>, <<"O", "T", "F">>,
     <<"t", "t", "c">>, <<"o", "t", "c">>, <<"T", "T", "C">>, <<"O", "T", "C">>}

\* ------------------------------------------------------------- FontSearcher
NoFont == [some |-> FALSE]
SomeFont(path, index) == [some |-> TRUE, path |-> path, index |-> index]

\* OnceCell<Option<Font>>: empty, being initialised by one caller, or full.
EmptyCell == [st |-> "empty", val |-> NoFont]
FullCell(v) == [st |-> "full", val |-> v]

FontSlot(path, index) == [path |-> path, index |-> index, font |-> EmptyCell]

FontSearcherNew == [book |-> <<>>, fonts |-> <<>>]

\* FontInfo::iter(&mmap): the faces FontInfo::new accepts, in file order.
FontInfoIter(faces) == SelectSeq(faces, LAMBDA f : f # "bad")

\* Mutant of PushFaces: the face index keeps counting across files.
RECURSIVE PushFacesRunning(_, _, _, _)
PushFacesRunning(searcher, path, infos, i) ==
    IF i >= Len(infos) THEN searcher
    ELSE PushFacesRunning([book |-> Append(searcher.book, infos[i + 1]),
                           fonts |-> Append(searcher.fonts,
                                            FontSlot(path, Len(searcher.fonts)))],
                          path, infos, i + 1)

RECURSIVE PushFaces(_, _, _, _)
PushFaces(searcher, path, infos, i) ==
    IF i >= Len(infos) THEN searcher
    ELSE PushFaces([book |-> Append(searcher.book, infos[i + 1]),
                    fonts |-> Append(searcher.fonts, FontSlot(path, i))],
                   path, infos, i + 1)

\* FontSearcher::search_file
SearchFile(searcher, files, p) ==
    IF p \in DOMAIN files /\ files[p].open /\ files[p].kind = "file"
    THEN PushFaces(searcher, p, FontInfoIter(files[p].faces), 0)
    ELSE searcher

\* Mutant of SearchEntries: the walk ends at the first font file that does not
\* open.
RECURSIVE SearchEntriesAborting(_, _, _)
SearchEntriesAborting(searcher, files, entries) ==
    IF entries = <<>> THEN searcher
    ELSE IF /\ Extension(Head(entries)) \in FontExtensions
            /\ ~files[Head(entries)].open
         THEN searcher
    ELSE SearchEntriesAborting(
            IF Extension(Head(entries)) \in FontExtensions
            THEN SearchFile(searcher, files, Head(entries))
            ELSE searcher,
            files, Tail(entries))

\* FontSearcher::search_dir
RECURSIVE SearchEntries(_, _, _)
SearchEntries(searcher, files, entries) ==
    IF entries = <<>> THEN searcher
    ELSE SearchEntries(
            IF Extension(Head(entries)) \in FontExtensions
            THEN SearchFile(searcher, files, Head(entries))
            ELSE searcher,
            files, Tail(entries))

SearchDir(searcher, files, p) == SearchEntries(searcher, files, WalkDir(files, p))

\* FontSearcher::search_system (unix, not macos), dirs::font_dir() being Some.
SystemFontDirs ==
    <<P("/usr/share/fonts", <<>>), P("/usr/local/share/fonts", <<>>),
      P("~/.local/share/fonts", <<>>)>>

RECURSIVE SearchDirs(_, _, _)
SearchDirs(searcher, files, ps) ==
    IF ps = <<>> THEN searcher
    ELSE SearchDirs(SearchDir(searcher, files, Head(ps)), files, Tail(ps))

SearchSystem(searcher, files) == SearchDirs(searcher, files, SystemFontDirs)

RECURSIVE SearchFiles(_, _, _)
SearchFiles(searcher, files, ps) ==
    IF ps = <<>> THEN searcher
    ELSE SearchFiles(SearchFile(searcher, files, Head(ps)), files, Tail(ps))

\* The searcher of SystemWorld::new: the system directories, then font_paths,
\* then font_files.
NewSearcher(files, fontPaths, fontFiles) ==
    SearchFiles(SearchDirs(SearchSystem(FontSearcherNew, files), files, fontPaths),
                files, fontFiles)

\* ------------------------------------------------- font trees to index
\* What the searcher added between two of its states.
Added(before, after) ==
    [book |-> SubSeq(after.book, Len(before.book) + 1, Len(after.book)),
     fonts |-> SubSeq(after.fonts, Len(before.fonts) + 1, Len(after.fonts))]

RankedFile(open, faces, rank) == [File(open, faces) EXCEPT !.rank = rank]

ExtraDir == P("/extra", <<>>)
LockedDir == P("/locked", <<>>)
MissingDir == P("/missing", <<>>)
SubDir == P("/extra", <<<<"o">>>>)

CollectionFile == P("/extra", <<<<"c", ".", "T", "T", "C">>>>)
MixedCaseFile == P("/extra", <<<<"b", ".", "T", "t", "f">>>>)
UnopenableFile == P("/extra", <<<<"F", ".", "o", "t", "f">>>>)
FacelessFile == P("/extra", <<<<"t", ".", "t", "t", "f">>>>)
OtherExtFile == P("/extra", <<<<"f", ".", "o", "f", "t">>>>)

\* A font directory every tree has: a plain font, a collection one face of which
\* FontInfo::new rejects, and a sub-directory with a font; next to it a directory
\* that cannot be read.
BaseTree ==
    (ExtraDir :> Dir(TRUE))
    @@ (P("/extra", <<<<"a", ".", "t", "t", "f">>>>) :> RankedFile(TRUE, <<"A">>, 3))
    @@ (CollectionFile :> RankedFile(TRUE, <<"C0", "bad", "C2">>, 1))
    @@ (SubDir :> [Dir(TRUE) EXCEPT !.rank = 2])
    @@ (P("/extra", <<<<"o">>, <<"a", ".", "o", "t", "c">>>>) :> RankedFile(TRUE, <<"O">>, 1))
    @@ (LockedDir :> Dir(FALSE))
    @@ (P("/locked", <<<<"a", ".", "t", "t", "f">>>>) :> RankedFile(TRUE, <<"L">>, 1))

\* Files a tree may hold besides: a font whose extension is in mixed case, a font
\* file that does not open, a font file without an acceptable face, a font under
\* an extension that names no font format.
OptionalFiles ==
    (MixedCaseFile :> RankedFile(TRUE, <<"B">>, 4))
    @@ (UnopenableFile :> RankedFile(FALSE, <<"F">>, 6))
    @@ (FacelessFile :> RankedFile(TRUE, <<"bad">>, 5))
    @@ (OtherExtFile :> RankedFile(TRUE, <<"X">>, 7))

Trees ==
    {BaseTree @@ [q \in S |-> OptionalFiles[q]] : S \in SUBSET DOMAIN OptionalFiles}

SearchDirArgs == {ExtraDir, LockedDir, MissingDir}
SearchFileArgs == {CollectionFile, MixedCaseFile, UnopenableFile, FacelessFile}

\* ------------------------------------------------------------- World
\* impl World for SystemWorld
WorldMain(wd) == wd.main

WorldSource(wd, id) ==
    IF id + 1 \in 1..Len(wd.sources)
    THEN Ok(wd.sources[id + 1])
    ELSE Err(NotFound)

\* Mutant of WorldFile: only the main document resolves.
WorldFileMainOnly(wd, id) == IF id = wd.main THEN Ok(<<>>) ELSE Err(NotFound)

WorldFile(wd, id) == Ok(<<>>)

\* Mutant of FontsGet: an index past the end is clamped to the last slot.
FontsGetClamped(fonts, index) ==
    IF fonts = <<>> THEN 0
    ELSE IF index + 1 > Len(fonts) THEN Len(fonts) ELSE index + 1

\* self.fonts.get(index): the position of the slot in the list, 0 for None.
FontsGet(fonts, index) == IF index + 1 \in 1..Len(fonts) THEN index + 1 ELSE 0

\* Mutant of GetOrInit: a caller that finds the cell not full runs the closure,
\* whether or not another caller is running it.
GetOrInitRacy(cell) == IF cell.st = "full" THEN "hit" ELSE "init"

\* OnceCell::get_or_init, as seen by a caller: the stored value is there ("hit"),
\* the caller runs the closure ("init"), or another caller is running it ("wait").
GetOrInit(cell) ==
    CASE cell.st = "full" -> "hit"
      [] cell.st = "empty" -> "init"
      [] cell.st = "running" -> "wait"

\* The closure of World::font: read(&slot.path).ok()? then Font::new(data, slot.index).
LoadFont(slot, readOk, parseOk) ==
    IF readOk /\ parseOk THEN SomeFont(slot.path, slot.index) ELSE NoFont

\* ------------------------------------------------------------- SystemWorld
NoWorld == [root |-> "", book |-> <<>>, fonts |-> <<>>, hashes |-> <<>>,
            paths |-> <<>>, sources |-> <<>>, main |-> 0]

\* SystemWorld::new: the provider, given the interner's id for MARKUP.typ.
SystemWorldNew(root, searcher, mainId) ==
    [root |-> root, book |-> searcher.book, fonts |-> searcher.fonts,
     hashes |-> <<>>, paths |-> <<>>, sources |-> <<>>, main |-> mainId]

\* SystemWorld::insert: Source::new(id, text) is pushed; the id is the path's.
SourceNew(id, text) == [id |-> id, text |-> text]

WorldInsert(wd, id, text) ==
    [wd EXCEPT !.sources = Append(@, SourceNew(id, text))]

\* Mutant of WorldReset: the loaded fonts are dropped with the path cache.
WorldResetUnloads(wd) ==
    [wd EXCEPT !.hashes = <<>>, !.paths = <<>>,
               !.fonts = [k \in 1..Len(wd.fonts) |-> [wd.fonts[k] EXCEPT !.font = EmptyCell]]]

\* Mutant of WorldReset: the sources are cleared as well.
WorldResetClearsSources(wd) ==
    [wd EXCEPT !.hashes = <<>>, !.paths = <<>>, !.sources = <<>>]

\* SystemWorld::reset
WorldReset(wd) == [wd EXCEPT !.hashes = <<>>, !.paths = <<>>]

\* The diagnostics branch of SystemWorld::compile.
Header == <<"compile error:", "\n">>

\* Mutant of PushMessages: the loop stops after the first diagnostic.
PushFirstOnly(msg, errors) == IF errors = <<>> THEN msg ELSE msg \o Head(errors)

RECURSIVE PushMessages(_, _)
PushMessages(msg, errors) ==
    IF errors = <<>> THEN msg
    ELSE PushMessages(msg \o Head(errors), Tail(errors))

\* Mutant of FormatDiagnostics: the message does not start with the header.
FormatNoHeader(errors) == PushMessages(<<>>, errors)

FormatDiagnostics(errors) == PushMessages(Header, errors)

\* ------------------------------------------------------------- state
NoCall == [via |-> "none", markup |-> <<>>, engine |-> NoResult,
           export |-> NoResult, result |-> NoResult, nif |-> NoResult]

Idle == [pc |-> "idle", index |-> 0, slot |-> 0]

ASeq == <<"a", ".", "t", "t", "f">>
BSeq == <<"b", ".", "o", "t", "f">>
DefaultFs ==
    (P("/usr/share/fonts", <<>>) :> Dir(TRUE))
    @@ (P("/usr/share/fonts", <<ASeq>>) :> File(TRUE, <<"A">>))
    @@ (ExtraDir :> Dir(TRUE))
    @@ (P("/extra", <<BSeq>>) :> File(TRUE, <<"B">>))

FontPathArgs == {<<>>, <<ExtraDir>>}

Init ==
    /\ fs = DefaultFs
    /\ interner = <<>>
    /\ pc = [w \in Worlds |-> "none"]
    /\ world = [w \in Worlds |-> NoWorld]
    /\ call = [w \in Worlds |-> NoCall]
    /\ thr = [w \in Worlds |-> [t \in Threads |-> Idle]]
    /\ issued = [w \in Worlds |-> <<>>]
    /\ reads = [w \in Worlds |-> <<>>]
    /\ fontRets = [w \in Worlds |-> <<>>]
    /\ obs = [w \in Worlds |-> <<>>]
    /\ fontSearcher = FontSearcherNew
    /\ searchLog = <<>>

\* The font indices the engine asks for: those of the catalogue and the first
\* one past its end.
FontIndexes(wd) == 0..Len(wd.fonts)

\* SystemWorld::new, called by the NIF (via = "nif": root ".", extra_fonts as
\* font_paths, no font_files) or by a host that keeps the provider (via = "host").
New(w, via, fontPaths) ==
    /\ pc[w] = "none"
    /\ LET r == FileIdNew(interner, MarkupPath)
           wd == SystemWorldNew(".", NewSearcher(fs, fontPaths, <<>>), r.id)
       IN
        /\ interner' = r.tab
        /\ world' = [world EXCEPT ![w] = wd]
        /\ reads' = [reads EXCEPT ![w] = [i \in FontIndexes(wd) |-> 0]]
        /\ fontRets' = [fontRets EXCEPT ![w] = [i \in FontIndexes(wd) |-> {}]]
    /\ pc' = [pc EXCEPT ![w] = "idle"]
    /\ call' = [call EXCEPT ![w] = [NoCall EXCEPT !.via = via]]
    /\ issued' = [issued EXCEPT ![w] = <<>>]
    /\ obs' = [obs EXCEPT ![w] = <<>>]
    /\ UNCHANGED <<fs, fontSearcher, searchLog, thr>>

\* SystemWorld::compile is entered with `markup` (&mut self: no call is running).
CompileCall(w, markup) ==
    /\ pc[w] \in {"idle", "succeeded", "failed"}
    /\ pc[w] # "idle" => call[w].via = "host"
    /\ Len(world[w].sources) < MaxCompiles
    /\ pc' = [pc EXCEPT ![w] = "resetting"]
    /\ call' = [call EXCEPT ![w] = [NoCall EXCEPT !.via = call[w].via,
                                                  !.markup = markup]]
    /\ obs' = [obs EXCEPT ![w] = <<>>]
    /\ UNCHANGED <<fs, fontSearcher, searchLog, interner, world, thr, issued, reads, fontRets>>

\* self.reset()
Reset(w) ==
    /\ pc[w] = "resetting"
    /\ world' = [world EXCEPT ![w] = WorldReset(@)]
    /\ pc' = [pc EXCEPT ![w] = "registering"]
    /\ UNCHANGED <<fs, fontSearcher, searchLog, interner, call, thr, issued, reads, fontRets, obs>>

\* Mutant of RegisterMain: the markup is registered before the reset, which is
\* then skipped.
RegisterMainUnreset(w) ==
    /\ pc[w] = "resetting"
    /\ LET r == FileIdNew(interner, MarkupPath) IN
        /\ interner' = r.tab
        /\ world' = [world EXCEPT ![w] =
                        [WorldInsert(@, r.id, call[w].markup) EXCEPT !.main = r.id]]
        /\ issued' = [issued EXCEPT ![w] = Append(@, [id |-> r.id, text |-> call[w].markup])]
    /\ pc' = [pc EXCEPT ![w] = "compiling"]
    /\ UNCHANGED <<fs, fontSearcher, searchLog, call, thr, reads, fontRets, obs>>

\* self.main = self.insert(Path::new("MARKUP.typ"), markup)
RegisterMain(w) ==
    /\ pc[w] = "registering"
    /\ LET r == FileIdNew(interner, MarkupPath) IN
        /\ interner' = r.tab
        /\ world' = [world EXCEPT ![w] =
                        [WorldInsert(@, r.id, call[w].markup) EXCEPT !.main = r.id]]
        /\ issued' = [issued EXCEPT ![w] = Append(@, [id |-> r.id, text |-> call[w].markup])]
    /\ pc' = [pc EXCEPT ![w] = "compiling"]
    /\ UNCHANGED <<fs, fontSearcher, searchLog, call, thr, reads, fontRets, obs>>

\* The engine resolves the path of another file (an import) to a FileId.
EngineIntern(w, path) ==
    /\ pc[w] = "compiling"
    /\ ~IsInterned(interner, path)
    /\ interner' = FileIdNew(interner, path).tab
    /\ UNCHANGED <<fs, fontSearcher, searchLog, pc, world, call, thr, issued, reads, fontRets, obs>>

\* The engine calls World::source(id).
EngineSource(w, id) ==
    /\ pc[w] = "compiling"
    /\ obs' = [obs EXCEPT ![w] =
                   <<[op |-> "source", id |-> id, res |-> WorldSource(world[w], id)]>>]
    /\ UNCHANGED <<fs, fontSearcher, searchLog, interner, pc, world, call, thr, issued, reads, fontRets>>

\* The engine calls World::file(id).
EngineFile(w, id) ==
    /\ pc[w] = "compiling"
    /\ obs' = [obs EXCEPT ![w] =
                   <<[op |-> "file", id |-> id, res |-> WorldFile(world[w], id)]>>]
    /\ UNCHANGED <<fs, fontSearcher, searchLog, interner, pc, world, call, thr, issued, reads, fontRets>>

\* A thread of the engine calls World::font(index): no slot, or get_or_init finds
\* the value, or the thread starts the closure, or it waits for the one running it.
FontCall(w, t, index) ==
    /\ pc[w] = "compiling"
    /\ thr[w][t].pc = "idle"
    /\ LET k == FontsGet(world[w].fonts, index) IN
       IF k = 0
       THEN /\ fontRets' = [fontRets EXCEPT ![w][index] = @ \cup {NoFont}]
            /\ UNCHANGED <<world, thr>>
       ELSE LET cell == world[w].fonts[k].font
                how == GetOrInit(cell)
            IN
            /\ fontRets' = [fontRets EXCEPT ![w][index] =
                               IF how = "hit" THEN @ \cup {cell.val} ELSE @]
            /\ world' = [world EXCEPT ![w].fonts[k].font.st =
                               IF how = "init" THEN "running" ELSE @]
            /\ thr' = [thr EXCEPT ![w][t] =
                               IF how = "hit" THEN Idle
                               ELSE [pc |-> how, index |-> index, slot |-> k]]
    /\ UNCHANGED <<fs, fontSearcher, searchLog, interner, pc, call, issued, reads, obs>>

\* The thread running the closure reads the file, parses the face, stores the
\* outcome in the cell and returns it.
FontInit(w, t, readOk, parseOk) ==
    /\ thr[w][t].pc = "init"
    /\ LET index == thr[w][t].index
           k == thr[w][t].slot
           v == LoadFont(world[w].fonts[k], readOk, parseOk)
       IN
        /\ reads' = [reads EXCEPT ![w][index] = @ + 1]
        /\ world' = [world EXCEPT ![w].fonts[k].font = FullCell(v)]
        /\ fontRets' = [fontRets EXCEPT ![w][index] = @ \cup {v}]
    /\ thr' = [thr EXCEPT ![w][t] = Idle]
    /\ UNCHANGED <<fs, fontSearcher, searchLog, interner, pc, call, issued, obs>>

\* A waiting thread finds the cell full and returns its value.
FontWake(w, t) ==
    /\ thr[w][t].pc = "wait"
    /\ LET index == thr[w][t].index
           cell == world[w].fonts[thr[w][t].slot].font
       IN
        /\ cell.st = "full"
        /\ fontRets' = [fontRets EXCEPT ![w][index] = @ \cup {cell.val}]
    /\ thr' = [thr EXCEPT ![w][t] = Idle]
    /\ UNCHANGED <<fs, fontSearcher, searchLog, interner, pc, world, call, issued, reads, obs>>

\* typst::compile returns once its threads have: no callback is running.
EngineDone(w) == pc[w] = "compiling" /\ \A t \in Threads : thr[w][t].pc = "idle"

\* typst::compile(self).output is Err(errors): the diagnostics are formatted.
EngineFail(w, errors) ==
    /\ EngineDone(w)
    /\ call' = [call EXCEPT ![w].engine = Err(errors),
                            ![w].result = Err(FormatDiagnostics(errors))]
    /\ pc' = [pc EXCEPT ![w] = "failed"]
    /\ UNCHANGED <<fs, fontSearcher, searchLog, interner, world, thr, issued, reads, fontRets, obs>>

\* typst::compile(self).output is Ok(document).
EngineOk(w) ==
    /\ EngineDone(w)
    /\ call' = [call EXCEPT ![w].engine = Ok("document")]
    /\ pc' = [pc EXCEPT ![w] = "exporting"]
    /\ UNCHANGED <<fs, fontSearcher, searchLog, interner, world, thr, issued, reads, fontRets, obs>>

\* typst_pdf::pdf(..)? : the buffer, or the exporter's error as the function's Err.
\* Mutant of ExportResult: a failed export yields Ok with the buffer so far.
ExportResultPartial(out) == IF out.ok THEN Ok(out.val) ELSE Ok(<<37, 80>>)

ExportResult(out) == IF out.ok THEN Ok(out.val) ELSE Err(out.err)

Export(w, out) ==
    /\ pc[w] = "exporting"
    /\ call' = [call EXCEPT ![w].export = out, ![w].result = ExportResult(out)]
    /\ pc' = [pc EXCEPT ![w] = IF out.ok THEN "succeeded" ELSE "failed"]
    /\ UNCHANGED <<fs, fontSearcher, searchLog, interner, world, thr, issued, reads, fontRets, obs>>

\* The NIF's match on world.compile(markup): Ok(String::from_utf8_unchecked(bytes))
\* keeps the bytes as they are, Err(e.into()) keeps the characters of e.
NifResult(res) == IF res.ok THEN Ok(res.val) ELSE Err(res.err)

\* Mutant of NifReturn: the provider is kept and serves the next call too.
NifReturnKeepsWorld(w) ==
    /\ pc[w] \in {"succeeded", "failed"}
    /\ call[w].via = "nif"
    /\ call' = [call EXCEPT ![w].nif = NifResult(call[w].result)]
    /\ pc' = [pc EXCEPT ![w] = "idle"]
    /\ UNCHANGED <<fs, fontSearcher, searchLog, interner, world, thr, issued, reads,
                   fontRets, obs>>

\* The NIF returns and its provider is dropped.
NifReturn(w) ==
    /\ pc[w] \in {"succeeded", "failed"}
    /\ call[w].via = "nif"
    /\ call' = [call EXCEPT ![w].nif = NifResult(call[w].result)]
    /\ world' = [world EXCEPT ![w] = NoWorld]
    /\ pc' = [pc EXCEPT ![w] = "none"]
    /\ UNCHANGED <<fs, fontSearcher, searchLog, interner, thr, issued, reads, fontRets, obs>>

\* A host drops its provider between two compile calls.
Drop(w) ==
    /\ pc[w] \in {"idle", "succeeded", "failed"}
    /\ call[w].via = "host"
    /\ world' = [world EXCEPT ![w] = NoWorld]
    /\ pc' = [pc EXCEPT ![w] = "none"]
    /\ UNCHANGED <<fs, fontSearcher, searchLog, interner, call, thr, issued, reads, fontRets, obs>>

InternedIds == 0..(Len(interner) - 1)
EngineOutcomes == SeqsUpTo(Messages, MaxDiags) \ {<<>>}
ExportOutcomes == {Ok(b) : b \in PdfBuffers} \cup {Err(e) : e \in ExportErrors}

Next ==
    \E w \in Providers :
        \/ \E via \in {"nif", "host"}, fp \in FontPathArgs : New(w, via, fp)
        \/ \E m \in Markups : CompileCall(w, m)
        \/ Reset(w)
        \/ RegisterMain(w)
        \/ \E p \in AuxPaths : EngineIntern(w, p)
        \/ \E id \in InternedIds : EngineSource(w, id)
        \/ \E id \in InternedIds : EngineFile(w, id)
        \/ \E t \in Threads, i \in FontIndexes(world[w]) : FontCall(w, t, i)
        \/ \E t \in Threads, r \in BOOLEAN, q \in BOOLEAN : FontInit(w, t, r, q)
        \/ \E t \in Threads : FontWake(w, t)
        \/ \E errors \in EngineOutcomes : EngineFail(w, errors)
        \/ EngineOk(w)
        \/ \E out \in ExportOutcomes : Export(w, out)
        \/ NifReturn(w)
        \/ Drop(w)

Spec == Init /\ [][Next]_vars

\* What the code's control flow guarantees once compile is entered: reset and
\* insert return, callbacks return (a closure under get_or_init finishes and
\* wakes its waiters), typst::compile returns and typst_pdf::pdf returns.
EngineReturn(w) == EngineOk(w) \/ \E errors \in EngineOutcomes : EngineFail(w, errors)
ExportReturn(w) == \E out \in ExportOutcomes : Export(w, out)
FontReturn(w) ==
    \E t \in Threads :
        FontWake(w, t) \/ \E r \in BOOLEAN, q \in BOOLEAN : FontInit(w, t, r, q)

Fairness ==
    \A w \in Providers :
        /\ WF_vars(Reset(w))
        /\ WF_vars(RegisterMain(w))
        /\ WF_vars(FontReturn(w))
        /\ WF_vars(EngineReturn(w))
        /\ WF_vars(ExportReturn(w))

SpecLive == Init /\ [][Next]_vars /\ Fairness

\* ------------------------------------------------- two entry-point calls
\* Two callers of the NIF at a time (the VM runs the calls of two processes on
\* two scheduler threads), each call with a provider of its own; the engine's
\* work is cut down to one thread per call and one outcome of each kind.
NextNif ==
    \E w \in Worlds :
        \/ New(w, "nif", <<>>)
        \/ \E markup \in Markups : CompileCall(w, markup)
        \/ Reset(w)
        \/ RegisterMain(w)
        \/ \E path \in AuxPaths : EngineIntern(w, path)
        \/ \E id \in InternedIds : EngineSource(w, id)
        \/ \E index \in FontIndexes(world[w]) : FontCall(w, 1, index)
        \/ FontInit(w, 1, TRUE, TRUE)
        \/ EngineFail(w, <<<<"a">>>>)
        \/ EngineOk(w)
        \/ Export(w, Ok(<<37, 80, 68, 70>>))
        \/ NifReturn(w)

SpecNif == Init /\ [][NextNif]_vars

\* ------------------------------------------------------- the font searcher
\* A FontSearcher on its own, over any of the trees: the calls SystemWorld::new
\* makes on it, one at a time, while the OS is free to list a directory in another
\* order the next time it is read.
InitIndex ==
    /\ fs \in Trees
    /\ interner = <<>>
    /\ pc = [w \in Worlds |-> "none"]
    /\ world = [w \in Worlds |-> NoWorld]
    /\ call = [w \in Worlds |-> NoCall]
    /\ thr = [w \in Worlds |-> [t \in Threads |-> Idle]]
    /\ issued = [w \in Worlds |-> <<>>]
    /\ reads = [w \in Worlds |-> <<>>]
    /\ fontRets = [w \in Worlds |-> <<>>]
    /\ obs = [w \in Worlds |-> <<>>]
    /\ fontSearcher = FontSearcherNew
    /\ searchLog = <<>>

\* searcher.search_dir(path)
SearchDirCall(p) ==
    /\ Len(searchLog) < MaxSearches
    /\ fontSearcher' = SearchDir(fontSearcher, fs, p)
    /\ searchLog' = Append(searchLog,
                           [op |-> "dir", path |-> p,
                            listing |-> IF p \in DOMAIN fs THEN ReadDir(fs, p) ELSE <<>>,
                            added |-> Added(fontSearcher, fontSearcher')])
    /\ UNCHANGED <<fs, interner, pc, world, call, thr, issued, reads, fontRets, obs>>

\* searcher.search_file(path)
SearchFileCall(p) ==
    /\ Len(searchLog) < MaxSearches
    /\ fontSearcher' = SearchFile(fontSearcher, fs, p)
    /\ searchLog' = Append(searchLog,
                           [op |-> "file", path |-> p, listing |-> <<>>,
                            added |-> Added(fontSearcher, fontSearcher')])
    /\ UNCHANGED <<fs, interner, pc, world, call, thr, issued, reads, fontRets, obs>>

\* The OS lists every directory in the reverse of the order it used; the tree
\* itself is as it was.
Relayout ==
    /\ fs' = [q \in DOMAIN fs |-> [fs[q] EXCEPT !.rank = 0 - fs[q].rank]]
    /\ UNCHANGED <<interner, pc, world, call, thr, issued, reads, fontRets, obs,
                   fontSearcher, searchLog>>

NextIndex ==
    \/ \E p \in SearchDirArgs : SearchDirCall(p)
    \/ \E p \in SearchFileArgs : SearchFileCall(p)
    \/ Relayout

SpecIndex == InitIndex /\ [][NextIndex]_vars

\* ================================================================= claims
IsOk(r) == "ok" \in DOMAIN r /\ r.ok
IsErr(r) == "ok" \in DOMAIN r /\ ~r.ok

\* The World::source call observed last in this pass, when it asked for `id`.
SourceSeen(w, id) ==
    obs[w] # <<>> /\ obs[w][1].op = "source" /\ obs[w][1].id = id

\* C1: in the second and every later compile pass on one provider, main() is not
\* the id that designated the previous markup, and the source obtained for main()
\* has the text of this call's markup.
C1_EachPassSeesOwnMarkup ==
    \A w \in Worlds :
        (pc[w] = "compiling" /\ Len(issued[w]) >= 2) =>
            /\ WorldMain(world[w]) # issued[w][Len(issued[w]) - 1].id
            /\ SourceSeen(w, WorldMain(world[w])) =>
                  /\ IsOk(obs[w][1].res)
                  /\ obs[w][1].res.val.text = call[w].markup

\* C2: the ids insert returns are pairwise distinct and increasing in call order,
\* and source on each of them returns the text registered under it.
C2_FreshIncreasingIds ==
    \A w \in Worlds :
        pc[w] # "none" =>
            /\ \A i, j \in 1..Len(issued[w]) :
                  i < j => issued[w][i].id < issued[w][j].id
            /\ \A k \in 1..Len(issued[w]) :
                  WorldSource(world[w], issued[w][k].id) =
                      Ok(SourceNew(issued[w][k].id, issued[w][k].text))

\* The threads running the loader of the slot at position k.
InitThreads(w, k) ==
    {t \in Threads : thr[w][t].pc = "init" /\ thr[w][t].slot = k}

\* C5: for every font index of the catalogue the loader (file read and face
\* parse) runs at most once in the provider's life, by at most one thread at a
\* time; nothing is returned before its outcome is stored, and every call returns
\* that stored outcome, a stored "no font" included.
C5_FontLoadedAtMostOnce ==
    \A w \in Worlds :
        pc[w] # "none" =>
            \A i \in 0..(Len(world[w].fonts) - 1) :
                LET cell == world[w].fonts[i + 1].font IN
                /\ reads[w][i] <= 1
                /\ Cardinality(fontRets[w][i]) <= 1
                /\ Cardinality(InitThreads(w, i + 1)) <= 1
                /\ cell.st = "running" <=> InitThreads(w, i + 1) # {}
                /\ cell.st = "full" => reads[w][i] = 1 /\ fontRets[w][i] \subseteq {cell.val}
                /\ cell.st # "full" => reads[w][i] = 0 /\ fontRets[w][i] = {}

\* In a second pass: index 0 holds a stored "no font" that was loaded once and
\* returned, and one thread waits for the thread loading index 1.
C5_Witness ==
    \E w \in Worlds :
        /\ pc[w] = "compiling"
        /\ Len(world[w].sources) = 2
        /\ Len(world[w].fonts) = 2
        /\ world[w].fonts[1].font = FullCell(NoFont)
        /\ reads[w][0] = 1
        /\ fontRets[w][0] = {NoFont}
        /\ \E t1, t2 \in Threads :
              /\ thr[w][t1].pc = "init" /\ thr[w][t1].slot = 2
              /\ thr[w][t2].pc = "wait" /\ thr[w][t2].slot = 2

OutOfRange(w, i) == i >= Len(world[w].fonts)

\* A font call with an index past the catalogue returns "no font" and leaves the
\* provider, the loader counts and the threads as they are.
C6_Frame ==
    \A w \in Worlds : \A t \in Threads : \A i \in FontIndexes(world[w]) :
        (OutOfRange(w, i) /\ FontCall(w, t, i)) =>
            /\ UNCHANGED <<world, reads, thr>>
            /\ fontRets' = [fontRets EXCEPT ![w][i] = @ \cup {NoFont}]

C6_NoneOnly ==
    \A w \in Worlds :
        pc[w] # "none" =>
            \A i \in DOMAIN fontRets[w] :
                OutOfRange(w, i) => fontRets[w][i] \subseteq {NoFont} /\ reads[w][i] = 0

\* C6: font(index) with an index outside [0, catalogue size) returns none, runs
\* no file read and changes no font slot.
C6_OutOfRangeIsNone == [](C6_NoneOnly) /\ [][C6_Frame]_vars

\* An out-of-range call has returned on a provider whose catalogue is not empty.
C6_Witness ==
    \E w \in Worlds :
        /\ pc[w] = "compiling"
        /\ Len(world[w].fonts) >= 1
        /\ fontRets[w][Len(world[w].fonts)] = {NoFont}

\* The World::file call observed last in this pass.
FileSeen(w) == obs[w] # <<>> /\ obs[w][1].op = "file"

\* C7 as stated: file(id) is a not-found error for every id that is not the main
\* document's.
C7_NotFoundOutsideMain ==
    \A w \in Worlds :
        (FileSeen(w) /\ obs[w][1].id # WorldMain(world[w])) =>
            obs[w][1].res = Err(NotFound)

\* C7 as amended: file(id) succeeds with an empty buffer for every id, the main
\* document's and any other; it never answers not-found.
C7_FileIsEmptyForEveryId ==
    \A w \in Worlds : FileSeen(w) => obs[w][1].res = Ok(<<>>)

\* file was called with the id of an interned path that is not the main document.
C7_Witness ==
    \E w \in Worlds :
        /\ pc[w] = "compiling"
        /\ FileSeen(w)
        /\ obs[w][1].id # WorldMain(world[w])

StartsWith(s, p) == Len(s) >= Len(p) /\ SubSeq(s, 1, Len(p)) = p

\* The entry point has returned for the call recorded in call[w].
Returned(w) == call[w].nif # NoResult

\* C8 as stated: every Err the entry point returns begins with the header.
C8_EveryFailureHasHeader ==
    \A w \in Worlds :
        (Returned(w) /\ IsErr(call[w].nif)) => StartsWith(call[w].nif.err, Header)

\* C8 as amended: an Err the entry point returns for engine diagnostics begins
\* with the header; an Err for an exporter failure is the exporter's own error,
\* with no header put before it.
C8_HeaderOnDiagnosticsOnly ==
    \A w \in Worlds :
        (Returned(w) /\ IsErr(call[w].nif)) =>
            /\ IsErr(call[w].engine) => StartsWith(call[w].nif.err, Header)
            /\ IsErr(call[w].export) => call[w].nif.err = call[w].export.err

\* The entry point returned Err for a call whose engine run reported diagnostics.
C8_Witness ==
    \E w \in Worlds :
        Returned(w) /\ IsErr(call[w].nif) /\ IsErr(call[w].engine)

\* Each message of msgs occurs in s, at or after position `from`, one after the
\* other without overlap.
RECURSIVE ContainsInOrder(_, _, _)
ContainsInOrder(s, msgs, from) ==
    IF msgs = <<>> THEN TRUE
    ELSE LET m == Head(msgs) IN
         \E p \in from..(Len(s) - Len(m) + 1) :
            /\ SubSeq(s, p, p + Len(m) - 1) = m
            /\ ContainsInOrder(s, Tail(msgs), p + Len(m))

\* C9: when the engine reports k >= 1 diagnostics, compile returns one Err string
\* that holds the message of each of the k diagnostics, in the engine's order.
C9_AllDiagnosticsReported ==
    \A w \in Worlds :
        IsErr(call[w].engine) =>
            /\ IsErr(call[w].result)
            /\ ContainsInOrder(call[w].result.err, call[w].engine.err, 1)
            /\ Returned(w) => call[w].nif = call[w].result

\* compile returned for an engine run that reported two different diagnostics.
C9_Witness ==
    \E w \in Worlds :
        /\ IsErr(call[w].engine)
        /\ Len(call[w].engine.err) = 2
        /\ call[w].engine.err[1] # call[w].engine.err[2]
        /\ pc[w] = "failed"

\* C10: the entry point returns Ok exactly when the engine and the exporter both
\* succeeded, with the exporter's bytes; otherwise it returns Err with a string
\* (not empty for engine diagnostics) and no bytes, and an exporter failure is
\* that Err as the exporter gave it.
C10_OkOnlyWithExportedBytes ==
    \A w \in Worlds :
        Returned(w) =>
            /\ IsOk(call[w].nif) <=> (IsOk(call[w].engine) /\ IsOk(call[w].export))
            /\ IsOk(call[w].nif) => call[w].nif.val = call[w].export.val
            /\ ~IsOk(call[w].nif) =>
                  /\ IsErr(call[w].nif)
                  /\ "val" \notin DOMAIN call[w].nif
                  /\ IsErr(call[w].engine) => call[w].nif.err # <<>>
            /\ (IsOk(call[w].engine) /\ IsErr(call[w].export)) =>
                  call[w].nif = Err(call[w].export.err)

\* The entry point returned Ok with a buffer that is not valid UTF-8.
C10_Witness ==
    \E w \in Worlds :
        /\ Returned(w)
        /\ IsOk(call[w].nif)
        /\ \E k \in 1..Len(call[w].nif.val) : call[w].nif.val[k] > 127

\* The steps a provider's owner takes, in the order the code allows them.
PcSteps ==
    {<<"none", "idle">>, <<"idle", "resetting">>, <<"succeeded", "resetting">>,
     <<"failed", "resetting">>, <<"resetting", "registering">>,
     <<"registering", "compiling">>, <<"compiling", "exporting">>,
     <<"compiling", "failed">>, <<"exporting", "succeeded">>,
     <<"exporting", "failed">>, <<"idle", "none">>, <<"succeeded", "none">>,
     <<"failed", "none">>}

\* A compile call moves along Idle -> Resetting -> Compiling -> Succeeded or
\* Failed: the reset step clears the path cache and registers nothing, the
\* register step appends the markup and sets main, and the registry changes in
\* no other step of a call.
C11_Order ==
    \A w \in Worlds :
        /\ pc'[w] # pc[w] => <<pc[w], pc'[w]>> \in PcSteps
        /\ (pc[w] = "resetting" /\ pc'[w] # pc[w]) =>
              /\ world'[w].hashes = <<>> /\ world'[w].paths = <<>>
              /\ world'[w].sources = world[w].sources
              /\ world'[w].main = world[w].main
        /\ (pc[w] = "registering" /\ pc'[w] # pc[w]) =>
              /\ world'[w].sources =
                    Append(world[w].sources, SourceNew(world'[w].main, call[w].markup))
              /\ call'[w].engine = NoResult
        /\ (pc[w] \in {"compiling", "exporting"} /\ pc'[w] \in {"compiling", "exporting"}) =>
              /\ world'[w].sources = world[w].sources
              /\ world'[w].main = world[w].main

\* Before the engine is invoked nothing of the call's outcome exists; an ended
\* call is in exactly one of the two outcomes, and a host can enter compile again.
C11_Phases ==
    \A w \in Worlds :
        /\ pc[w] \in {"resetting", "registering", "compiling"} =>
              call[w].engine = NoResult /\ call[w].result = NoResult
        /\ pc[w] = "succeeded" => IsOk(call[w].result)
        /\ pc[w] = "failed" => IsErr(call[w].result)
        /\ (pc[w] # "none" /\ call[w].result # NoResult) => pc[w] \in {"succeeded", "failed"}
        /\ (pc[w] \in {"succeeded", "failed"} /\ call[w].via = "host"
                /\ Len(world[w].sources) < MaxCompiles) =>
              ENABLED (\E m \in Markups : CompileCall(w, m))

\* C11: each compile call walks Idle -> Resetting -> Compiling -> Succeeded or
\* Failed in this order (reset before registration, registration and main before
\* the engine), every call that was entered ends in one of the two outcomes, and
\* from either outcome a further call can be entered.
C11_CompileStateMachine ==
    /\ [](C11_Phases)
    /\ [][C11_Order]_vars
    /\ \A w \in Worlds : (pc[w] = "resetting") ~> (pc[w] \in {"succeeded", "failed"})

\* A second call on one provider has ended, after a first one that failed.
C11_Witness ==
    \E w \in Worlds :
        /\ pc[w] = "succeeded"
        /\ Len(world[w].sources) = 2
        /\ call[w].via = "host"

\* ---------------------------------------------------------- font search
Lower(c) ==
    CASE c = "C" -> "c" [] c = "F" -> "f" [] c = "O" -> "o" [] c = "T" -> "t"
      [] OTHER -> c

LowerAll(name) == [k \in 1..Len(name) |-> Lower(name[k])]

FontFormats == {<<"t", "t", "f">>, <<"o", "t", "f">>, <<"t", "t", "c">>, <<"o", "t", "c">>}

\* q lies in the tree below p and every directory from p down to it can be read.
Visible(files, p, q) ==
    /\ q \in DOMAIN files
    /\ q.root = p.root
    /\ Len(q.rel) >= Len(p.rel)
    /\ SubSeq(q.rel, 1, Len(p.rel)) = p.rel
    /\ \A k \in Len(p.rel)..(Len(q.rel) - 1) :
          LET d == P(q.root, SubSeq(q.rel, 1, k)) IN
          d \in DOMAIN files /\ files[d].kind = "dir" /\ files[d].open

\* A file search_file adds something for.
HasFace(files, q) ==
    /\ files[q].kind = "file"
    /\ files[q].open
    /\ \E k \in 1..Len(files[q].faces) : files[q].faces[k] # "bad"

IndexedBy(e, q) == \E k \in 1..Len(e.added.fonts) : e.added.fonts[k].path = q

\* C12: a directory search passes a file to the indexer exactly when its
\* extension is ttf, otf, ttc or otc in any casing.
C12_ExtensionsCaseInsensitive ==
    \A n \in 1..Len(searchLog) :
        LET e == searchLog[n] IN
        e.op = "dir" =>
            \A q \in DOMAIN fs :
                (Visible(fs, e.path, q) /\ HasFace(fs, q)) =>
                    (IndexedBy(e, q) <=> LowerAll(Extension(q)) \in FontFormats)

KeepsEntries(before, after) ==
    /\ Len(before.book) <= Len(after.book)
    /\ Len(before.fonts) <= Len(after.fonts)
    /\ SubSeq(after.book, 1, Len(before.book)) = before.book
    /\ SubSeq(after.fonts, 1, Len(before.fonts)) = before.fonts

\* A call that meets a file or a root it cannot use adds nothing for it; a
\* directory search still indexes every usable font file it can reach, and a
\* file search after a failed call still indexes a usable file.
C14_FailuresAddNothing ==
    \A n \in 1..Len(searchLog) :
        LET e == searchLog[n] IN
        /\ (e.op = "file" /\ (e.path \notin DOMAIN fs \/ ~HasFace(fs, e.path))) =>
              e.added = [book |-> <<>>, fonts |-> <<>>]
        /\ (e.op = "file" /\ e.path \in DOMAIN fs /\ HasFace(fs, e.path)) =>
              e.added.fonts # <<>>
        /\ (e.op = "dir" /\ (e.path \notin DOMAIN fs \/ ~fs[e.path].open)) =>
              e.added = [book |-> <<>>, fonts |-> <<>>]
        /\ e.op = "dir" =>
              \A q \in DOMAIN fs :
                  /\ (Visible(fs, e.path, q) /\ ~HasFace(fs, q)) => ~IndexedBy(e, q)
                  /\ (Visible(fs, e.path, q) /\ HasFace(fs, q)
                        /\ Extension(q) \in FontExtensions) => IndexedBy(e, q)

\* C14: indexing never fails as a whole: a file that cannot be opened or holds
\* no face, and a root that cannot be read, add nothing; every call keeps the
\* entries recorded before it, and the calls after it go on adding.
C14_IndexingNeverFails ==
    /\ [](C14_FailuresAddNothing)
    /\ [][KeepsEntries(fontSearcher, fontSearcher')]_vars

\* A search of a directory whose first font file does not open has indexed the
\* files after it, and the search of an unreadable root that followed has added
\* nothing and kept those entries.
C14_Witness ==
    /\ Len(searchLog) = 2
    /\ searchLog[1].op = "dir" /\ searchLog[1].path = ExtraDir
    /\ UnopenableFile \in DOMAIN fs
    /\ FacelessFile \in DOMAIN fs
    /\ Len(searchLog[1].added.fonts) >= 4
    /\ searchLog[2].op = "dir" /\ searchLog[2].path = LockedDir
    /\ searchLog[2].added.fonts = <<>>
    /\ fontSearcher.fonts = searchLog[1].added.fonts

\* The faces of a file that FontInfo::iter yields, in the order it yields them.
Enumerated(files, q) == SelectSeq(files[q].faces, LAMBDA f : f # "bad")

\* The handles a call added for one file count 0, 1, 2, ... : the first handle
\* of the call and every handle after a handle of another file has index 0, a
\* handle after a handle of the same file has the next index.
CountsUp(handles) ==
    \A k \in 1..Len(handles) :
        IF k > 1 /\ handles[k - 1].path = handles[k].path
        THEN handles[k].index = handles[k - 1].index + 1
        ELSE handles[k].index = 0

C15_MainSourceIsThisMarkup ==
    \A w \in Worlds :
        pc[w] = "compiling" =>
            /\ IsOk(WorldSource(world[w], WorldMain(world[w])))
            /\ WorldSource(world[w], WorldMain(world[w])).val.text = call[w].markup
            /\ SourceSeen(w, WorldMain(world[w])) =>
                  obs[w][1].res = WorldSource(world[w], WorldMain(world[w]))

\* C17: reset empties both path-cache maps and leaves the source registry alone:
\* after n compile calls on one provider the registry holds n entries, entry k
\* with the markup of the k-th call, and both maps are empty when the engine is
\* invoked.
C17_ResetKeepsSources ==
    /\ [](\A w \in Worlds :
            /\ pc[w] # "none" =>
                  /\ Len(world[w].sources) = Len(issued[w])
                  /\ \A k \in 1..Len(issued[w]) :
                        world[w].sources[k].text = issued[w][k].text
            /\ pc[w] \in {"registering", "compiling"} =>
                  world[w].hashes = <<>> /\ world[w].paths = <<>>)
    /\ [][\A w \in Worlds :
            (pc[w] = "resetting" /\ pc'[w] = "registering") =>
                world'[w].sources = world[w].sources]_vars

\* The engine is invoked for the second call: two entries, each with the markup
\* of its call.
C17_Witness ==
    \E w \in Worlds :
        /\ pc[w] = "compiling"
        /\ Len(world[w].sources) = 2
        /\ world[w].sources[1].text # world[w].sources[2].text
        /\ world[w].sources[2].text = call[w].markup

\* What a step may do to the fonts of a provider that exists before and after
\* it: nothing to the catalogue, to the number of handles or to a handle's path
\* and face index; a cell that is set keeps its value and no cell becomes unset.
C18_FontsFrame ==
    \A w \in Worlds :
        (pc[w] # "none" /\ pc'[w] # "none") =>
            /\ world'[w].book = world[w].book
            /\ Len(world'[w].fonts) = Len(world[w].fonts)
            /\ \A k \in 1..Len(world[w].fonts) :
                  /\ world'[w].fonts[k].path = world[w].fonts[k].path
                  /\ world'[w].fonts[k].index = world[w].fonts[k].index
                  /\ world[w].fonts[k].font.st = "full" =>
                        world'[w].fonts[k].font = world[w].fonts[k].font
                  /\ world'[w].fonts[k].font.st = "empty" =>
                        world[w].fonts[k].font.st = "empty"

\* C18: after construction no operation (reset, compile, insert, source, file,
\* font) changes the font catalogue, the length of the handle list or the path
\* and face index of a handle; a handle's font only goes from unset to set, once.
C18_FontsWriteOnce == [][C18_FontsFrame]_vars

\* A second pass runs on a provider one of whose fonts the first pass loaded.
C18_Witness ==
    \E w \in Worlds :
        /\ pc[w] = "compiling"
        /\ Len(world[w].sources) = 2
        /\ Len(world[w].fonts) = 2
        /\ world[w].fonts[2].font.st = "full"
        /\ world[w].fonts[2].font.val # NoFont
        /\ world[w].fonts[1].font.st = "empty"

\* The ids the registrations of this provider have returned.
IssuedIds(w) == {issued[w][k].id : k \in 1..Len(issued[w])}

\* C19: when source(id) succeeds the Source it returns carries the requested id,
\* and source(id) fails with not-found for every id no registration returned.
C19_SourceIsTheOneRegistered ==
    \A w \in Worlds :
        (pc[w] = "compiling" /\ obs[w] # <<>> /\ obs[w][1].op = "source") =>
            /\ IsOk(obs[w][1].res) => obs[w][1].res.val.id = obs[w][1].id
            /\ obs[w][1].id \notin IssuedIds(w) => obs[w][1].res = Err(NotFound)

\* What an entry-point call sees of its provider: fresh when the call gets it,
\* one source (this call's markup, which is what main resolves to) and an empty
\* path cache when the engine is invoked, and no font it did not load itself.
C20_OwnProvider ==
    \A w \in Worlds :
        call[w].via = "nif" =>
            /\ pc[w] = "idle" =>
                  /\ world[w].sources = <<>>
                  /\ \A k \in 1..Len(world[w].fonts) : world[w].fonts[k].font = EmptyCell
            /\ pc[w] \in {"compiling", "exporting", "succeeded", "failed"} =>
                  /\ world[w].sources = <<SourceNew(WorldMain(world[w]), call[w].markup)>>
                  /\ WorldSource(world[w], WorldMain(world[w])) =
                        Ok(SourceNew(WorldMain(world[w]), call[w].markup))
                  /\ world[w].hashes = <<>> /\ world[w].paths = <<>>
            /\ pc[w] # "none" =>
                  \A k \in 1..Len(world[w].fonts) :
                      world[w].fonts[k].font.st = "full" => reads[w][k - 1] = 1

\* A step of one call leaves the provider of the other as it is, and a call
\* enters compile on its provider once.
C20_Step ==
    \A w \in Worlds :
        /\ (pc'[w] = "resetting" /\ pc[w] # "resetting" /\ call'[w].via = "nif") =>
              pc[w] = "idle"
        /\ \A v \in Worlds \ {w} :
              (world'[w] # world[w] \/ pc'[w] # pc[w]) =>
                  /\ world'[v] = world[v]
                  /\ pc'[v] = pc[v]
                  /\ call'[v] = call[v]

\* C20: every call of the entry point builds its own provider and runs exactly
\* one compile pass on it: the registry holds exactly this call's markup when the
\* engine is invoked, and no registry entry, path-cache entry or loaded font of
\* one call is visible to another, two calls running at the same time included.
C20_CallsAreIsolated == [](C20_OwnProvider) /\ [][C20_Step]_vars

\* Two calls are inside the engine at the same time with different markups, one
\* of them has loaded a font the other has not, and the interner they share holds
\* a path the engine interned.
C20_Witness ==
    /\ pc[1] = "compiling" /\ pc[2] = "compiling"
    /\ call[1].markup # call[2].markup
    /\ world[1].fonts[1].font.st = "full"
    /\ world[2].fonts[1].font.st = "empty"
    /\ Len(interner) = 2
    /\ call[1].via = "nif" /\ call[2].via = "nif"
====
